---------------------------- MODULE Spec2Model ----------------------------
(***************************************************************************)
(* A model of the growable array of src/src/array.rs (Header, IArray,     *)
(* IntoIter) and of the archive conversions of src/src/rkyv.rs.            *)
(*                                                                         *)
(* The heap is a map from addresses to blocks (a Header followed by cap    *)
(* element slots).  Address EMPTY holds the shared static EMPTY_HEADER.    *)
(* Every operation of IArray is an operator on a machine record (the heap, *)
(* the set of allocated addresses, the pointer held by each live array)    *)
(* written statement by statement after the Rust code; the actions commit  *)
(* the record an operation returns.                                        *)
(***************************************************************************)
EXTENDS Integers, Sequences, FiniteSets, TLC

(* ------------------------------ bounds -------------------------------- *)
\* element values are opaque handles 1..NumValues
NumValues == 2
\* no block larger than MaxCap slots is allocated
MaxCap == 4
\* number of heap addresses the allocator can hand out
MaxBlocks == 3
\* largest block of the two-array specification SpecClone
CloneMaxCap == 2
\* width of the integer types of the archive model: i64 and u64 are modelled
\* as Bits-bit signed and unsigned integers
Bits == 3
\* longest array and largest object among the archived values
MaxLen == 2

(* ---------------------------- constants ------------------------------- *)
\* address of the static EMPTY_HEADER
EMPTY == 0
\* the null pointer of an exhausted IntoIter
NULL == -1
\* Option::None, and the unit result of operations that return nothing
None == 0
\* content of a slot that holds no initialised element (MaybeUninit)
Uninit == 0

Values == 1..NumValues
Addrs == 1..MaxBlocks
Names == {"a", "b"}

VARIABLES
    mem,        \* address -> Header + slots: [len, cap, slots]
    allocated,  \* addresses currently owned by some array or iterator
    arr,        \* live arrays: name -> pointer held by its IValue
    ub,         \* undefined-behaviour events that happened so far
    it,         \* the consuming iterator: [alive, header, index]
    itSrc,      \* as_slice() of the array the iterator was made from
    yielded,    \* every value next() returned, to the caller or to the drain
    ref,        \* reference lists performing the same operations
    last,       \* the last operation: its arguments, result and pre-state
    history     \* "full": last records every operation; "none": it records none

avars == <<mem, allocated, arr, ub, it, itSrc, yielded, ref, last, history>>

\* the archive conversions of src/src/rkyv.rs
VARIABLES
    value,      \* the IValue being archived
    archived,   \* ArchivableJson::from(&value)
    decoded,    \* IValue::from(archived)
    pc          \* "idle", "start", "archived" or "done"

rvars == <<value, archived, decoded, pc>>
vars == <<avars, rvars>>

(* ------------------------------ Header -------------------------------- *)
\* struct Header { len, cap } followed by cap slots
Header(len, cap, slots) == [len |-> len, cap |-> cap, slots |-> slots]

EMPTY_HEADER == Header(0, 0, <<>>)

\* the machine an operation works on; dropped lists the elements the
\* operation destructed, in the order it destructed them
St == [mem |-> mem, allocated |-> allocated, arr |-> arr, ub |-> ub,
       it |-> it, yielded |-> yielded, dropped |-> <<>>,
       fits |-> TRUE, panic |-> FALSE, ret |-> None]

Min(a, b) == IF a <= b THEN a ELSE b
Max(a, b) == IF a >= b THEN a ELSE b

\* Header::as_slice: the first len slots
HeaderAsSlice(h) == SubSeq(h.slots, 1, Min(h.len, h.cap))

\* Header::push: write slot[len], then len += 1
\* (get_unchecked_mut: a write outside the block is undefined behaviour)
HeaderPush(s, p, item) ==
    LET h == s.mem[p]
        written == [i \in 1..h.cap |-> IF i = h.len + 1 THEN item ELSE h.slots[i]]
    IN [s EXCEPT !.mem[p] = Header(h.len + 1, h.cap, written),
                 !.ub = @ \cup (IF h.len < h.cap THEN {} ELSE {"oob_write"})
                          \cup (IF p = EMPTY THEN {"static_write"} ELSE {})]

\* Header::pop reading the slot below the one it gives up (off by one)
HeaderPopOffByOne(s, p) ==
    LET h == s.mem[p]
    IN IF h.len = 0
       THEN [s EXCEPT !.ret = None]
       ELSE [s EXCEPT !.mem[p] = Header(h.len - 1, h.cap,
                                        [i \in 1..h.cap |->
                                            IF i = h.len THEN Uninit ELSE h.slots[i]]),
                      !.ret = IF h.len >= 2 THEN h.slots[h.len - 1] ELSE h.slots[h.len]]

\* Header::pop: None when len = 0, else len -= 1 and read slot[len]
HeaderPop(s, p) ==
    LET h == s.mem[p]
    IN IF h.len = 0
       THEN [s EXCEPT !.ret = None]
       ELSE [s EXCEPT !.mem[p] = Header(h.len - 1, h.cap,
                                        [i \in 1..h.cap |->
                                            IF i = h.len THEN Uninit ELSE h.slots[i]]),
                      !.ret = h.slots[h.len],
                      !.ub = @ \cup (IF p = EMPTY THEN {"static_write"} ELSE {})]

(* ----------------------------- allocator ------------------------------ *)
FreeAddrs(s) == Addrs \ s.allocated

\* the address the allocator hands out next (0 when the model has none left)
NewAddr(s) ==
    IF FreeAddrs(s) = {} THEN EMPTY
    ELSE CHOOSE p \in FreeAddrs(s) : \A q \in FreeAddrs(s) : p <= q

\* IArray::alloc: a fresh block with len = 0 and the given cap
Alloc(s, cap) ==
    LET p == NewAddr(s)
    IN IF p = EMPTY \/ cap > MaxCap
       THEN [s EXCEPT !.fits = FALSE]
       ELSE [s EXCEPT !.mem[p] = Header(0, cap, [i \in 1..cap |-> Uninit]),
                      !.allocated = @ \cup {p}]

\* IArray::dealloc: frees the block (layout from the header's cap); freeing
\* a block that is not allocated is undefined behaviour, and so is handing
\* the static EMPTY_HEADER to the allocator
Dealloc(s, p) ==
    IF p \notin s.allocated
    THEN [s EXCEPT !.ub = @ \cup {"bad_free"}
                             \cup (IF p = EMPTY THEN {"static_free"} ELSE {})]
    ELSE [s EXCEPT !.mem[p] = EMPTY_HEADER, !.allocated = @ \ {p}]

\* IArray::realloc: the allocator extends the block in place or moves it
\* (move); the header and the slots kept by the new size are preserved
Realloc(s, p, new_cap, move) ==
    LET h == s.mem[p]
        q == IF move THEN NewAddr(s) ELSE p
        slots == [i \in 1..new_cap |-> IF i <= h.cap THEN h.slots[i] ELSE Uninit]
    IN IF p \notin s.allocated
       THEN [s EXCEPT !.ub = @ \cup {"bad_realloc"}
                                \cup (IF p = EMPTY THEN {"static_realloc"} ELSE {})]
       ELSE IF q = EMPTY \/ new_cap > MaxCap
       THEN [s EXCEPT !.fits = FALSE]
       ELSE IF move
       THEN [s EXCEPT !.mem = [@ EXCEPT ![p] = EMPTY_HEADER,
                                        ![q] = Header(h.len, new_cap, slots)],
                      !.allocated = (@ \ {p}) \cup {q}]
       ELSE [s EXCEPT !.mem[p] = Header(h.len, new_cap, slots)]

\* the pointer Realloc returns
ReallocPtr(s, p, move) == IF move /\ p \in s.allocated THEN NewAddr(s) ELSE p

(* ------------------------------ IArray -------------------------------- *)
\* IValue::set_ptr / set_ref / construction: array x holds pointer p
SetPtr(s, x, p) ==
    [s EXCEPT !.arr = [y \in (DOMAIN s.arr) \cup {x} |->
                          IF y = x THEN p ELSE s.arr[y]]]

\* the array x goes out of scope
Forget(s, x) == [s EXCEPT !.arr = [y \in (DOMAIN s.arr) \ {x} |-> s.arr[y]]]

header(s, x) == s.mem[s.arr[x]]
capacity(s, x) == header(s, x).cap
len(s, x) == header(s, x).len
is_static(s, x) == capacity(s, x) = 0
is_empty(s, x) == len(s, x) = 0
as_slice(s, x) == HeaderAsSlice(header(s, x))

\* IArray::new
new(s, x) == SetPtr(s, x, EMPTY)

\* with_capacity allocating a block even for cap = 0
with_capacity_always_allocates(s, x, cap) == SetPtr(Alloc(s, cap), x, NewAddr(s))

\* IArray::with_capacity
with_capacity(s, x, cap) ==
    IF cap = 0 THEN new(s, x)
    ELSE SetPtr(Alloc(s, cap), x, NewAddr(s))

\* `hd.pop();`: the popped element is a temporary, destructed at once
DropRet(s) == IF s.ret = None THEN s ELSE [s EXCEPT !.dropped = Append(@, s.ret)]

\* the loop of truncate stopping one element early: while hd.len > n + 1
RECURSIVE TruncateLoopEarly(_, _, _)
TruncateLoopEarly(s, p, n) ==
    IF s.mem[p].len > n + 1
    THEN TruncateLoopEarly(DropRet(HeaderPop(s, p)), p, n) ELSE s

\* Header::pop repeated while hd.len > n (the loop of truncate)
RECURSIVE TruncateLoop(_, _, _)
TruncateLoop(s, p, n) ==
    IF s.mem[p].len > n THEN TruncateLoop(DropRet(HeaderPop(s, p)), p, n) ELSE s

\* IArray::truncate
truncate(s, x, n) ==
    IF is_static(s, x) THEN s
    ELSE [TruncateLoop(s, s.arr[x], n) EXCEPT !.ret = None]

\* clear leaving the first element in place
clear_keeping_first(s, x) == truncate(s, x, 1)

\* IArray::clear
clear(s, x) == truncate(s, x, 0)

\* drop_impl freeing the block without asking whether the array is static
drop_impl_unchecked(s, x) ==
    LET c == clear(s, x)
    IN SetPtr(Dealloc(c, c.arr[x]), x, EMPTY)

\* IArray::drop_impl
drop_impl(s, x) ==
    LET c == clear(s, x)
    IN IF ~is_static(c, x)
       THEN SetPtr(Dealloc(c, c.arr[x]), x, EMPTY)
       ELSE c

\* resize_internal reallocating a heap-backed array even to cap = 0
resize_internal_realloc_only(s, x, cap, move) ==
    IF is_static(s, x)
    THEN with_capacity(drop_impl(s, x), x, cap)
    ELSE SetPtr(Realloc(s, s.arr[x], cap, move), x,
                ReallocPtr(s, s.arr[x], move))

\* IArray::resize_internal; `*self = ...` drops the array it replaces (the
\* replaced array owns a block only when cap = 0, and then nothing is
\* allocated, so the order of the drop and the allocation is immaterial)
resize_internal(s, x, cap, move) ==
    IF is_static(s, x) \/ cap = 0
    THEN with_capacity(drop_impl(s, x), x, cap)
    ELSE SetPtr(Realloc(s, s.arr[x], cap, move), x,
                ReallocPtr(s, s.arr[x], move))

\* reserve growing to twice the capacity only, without the max with len + additional
reserve_doubling_only(s, x, additional, move) ==
    LET hd == header(s, x)
    IN IF hd.cap >= hd.len + additional THEN s
       ELSE resize_internal(s, x, hd.cap * 2, move)

\* reserve growing to exactly len + additional, without the doubling
reserve_exact(s, x, additional, move) ==
    LET hd == header(s, x)
    IN IF hd.cap >= hd.len + additional THEN s
       ELSE resize_internal(s, x, hd.len + additional, move)

\* IArray::reserve
reserve(s, x, additional, move) ==
    LET hd == header(s, x)
        current_capacity == hd.cap
        desired_capacity == hd.len + additional
    IN IF current_capacity >= desired_capacity THEN s
       ELSE resize_internal(s, x, Max(current_capacity * 2, desired_capacity), move)

\* rotate_right(1) rotating the wrong way
RotateRight1Leftwards(q) ==
    IF Len(q) = 0 THEN q ELSE SubSeq(q, 2, Len(q)) \o <<q[1]>>

\* rotate_left(1) rotating the wrong way
RotateLeft1Rightwards(q) ==
    IF Len(q) = 0 THEN q ELSE <<q[Len(q)]>> \o SubSeq(q, 1, Len(q) - 1)

\* slice::rotate_right(1) and slice::rotate_left(1)
RotateRight1(q) ==
    IF Len(q) = 0 THEN q ELSE <<q[Len(q)]>> \o SubSeq(q, 1, Len(q) - 1)
RotateLeft1(q) ==
    IF Len(q) = 0 THEN q ELSE SubSeq(q, 2, Len(q)) \o <<q[1]>>

\* the live elements of block p replaced by the sequence q of the same length
WithElems(s, p, q) ==
    [s EXCEPT !.mem[p] =
        Header(@.len, @.cap,
               [i \in 1..s.mem[p].cap |-> IF i <= Len(q) THEN q[i] ELSE s.mem[p].slots[i]])]

\* push writing the item without reserving room for it
push_without_reserve(s, x, item, move) ==
    [HeaderPush(s, s.arr[x], item) EXCEPT !.ret = None]

\* IArray::push
push(s, x, item, move) ==
    LET r == reserve(s, x, 1, move)
    IN [HeaderPush(r, r.arr[x], item) EXCEPT !.ret = None]

\* IArray::pop
pop(s, x) ==
    IF is_static(s, x) THEN [s EXCEPT !.ret = None]
    ELSE HeaderPop(s, s.arr[x])

\* IArray::shrink_to_fit
shrink_to_fit(s, x, move) == resize_internal(s, x, len(s, x), move)

\* IArray::insert (the assertion comes after the reserve)
insert(s, x, index, item, move) ==
    LET r == reserve(s, x, 1, move)
        p == r.arr[x]
    IN IF ~(index <= r.mem[p].len)
       THEN [r EXCEPT !.panic = TRUE, !.ret = None]
       ELSE LET u == HeaderPush(r, p, item)
                sl == HeaderAsSlice(u.mem[p])
            IN [(IF index < u.mem[p].len
                 THEN WithElems(u, p, SubSeq(sl, 1, index)
                                   \o RotateRight1(SubSeq(sl, index + 1, Len(sl))))
                 ELSE u) EXCEPT !.ret = None]

\* IArray::remove
remove(s, x, index) ==
    IF ~(index < len(s, x))
    THEN [s EXCEPT !.panic = TRUE, !.ret = None]
    ELSE LET p == s.arr[x]
             sl == as_slice(s, x)
         IN HeaderPop(WithElems(s, p, SubSeq(sl, 1, index)
                                   \o RotateLeft1(SubSeq(sl, index + 1, Len(sl)))), p)

\* slice::swap(i, j), 0-based
Swap(q, i, j) ==
    [k \in 1..Len(q) |-> IF k = i + 1 THEN q[j + 1]
                         ELSE IF k = j + 1 THEN q[i + 1] ELSE q[k]]

\* swap_remove removing as remove does, keeping the order
swap_remove_ordered(s, x, index) == remove(s, x, index)

\* IArray::swap_remove
swap_remove(s, x, index) ==
    IF ~(index < len(s, x))
    THEN [s EXCEPT !.panic = TRUE, !.ret = None]
    ELSE LET p == s.arr[x]
             last_index == s.mem[p].len - 1
         IN HeaderPop(WithElems(s, p, Swap(as_slice(s, x), index, last_index)), p)

\* IndexMut through IArray::as_mut_slice: `a[index] = item`
\* (an empty slice for the static array; out of range is a panic)
index_mut_set(s, x, index, item) ==
    LET sl == IF is_static(s, x) THEN <<>> ELSE as_slice(s, x)
    IN IF ~(index < Len(sl))
       THEN [s EXCEPT !.panic = TRUE, !.ret = None]
       ELSE [WithElems(s, s.arr[x],
                       [k \in 1..Len(sl) |-> IF k = index + 1 THEN item ELSE sl[k]])
                EXCEPT !.ret = None]

\* the loop of clone_impl: hd.push(v.clone()) for v in src
RECURSIVE CloneLoop(_, _, _, _)
CloneLoop(s, p, src, i) ==
    IF i > Len(src) THEN s
    ELSE CloneLoop(HeaderPush(s, p, src[i]), p, src, i + 1)

\* a clone that copies the handle, so both arrays point at one block
clone_impl_shallow(s, x, y) == SetPtr(s, y, s.arr[x])

\* IArray::clone_impl: x cloned into the new array y
clone_impl(s, x, y) ==
    LET src == as_slice(s, x)
        l == Len(src)
        res == with_capacity(s, y, l)
    IN IF l > 0 THEN CloneLoop(res, res.arr[y], src, 1) ELSE res

(* ----------------------------- IntoIter ------------------------------- *)
IntoIter(header_, index) == [alive |-> TRUE, header |-> header_, index |-> index]
NoIter == [alive |-> FALSE, header |-> NULL, index |-> 0]

\* into_iter handing the block to the iterator without forgetting the
\* array, whose destructor then runs at the end of the call
into_iter_without_forget(s, x) ==
    IF is_static(s, x)
    THEN [Forget(drop_impl(s, x), x) EXCEPT !.it = IntoIter(NULL, 0)]
    ELSE [Forget(drop_impl(s, x), x) EXCEPT !.it = IntoIter(s.arr[x], 0)]

\* IntoIterator::into_iter: the static array is dropped, the heap-backed
\* one is forgotten and its block handed to the iterator
into_iter(s, x) ==
    IF is_static(s, x)
    THEN [Forget(drop_impl(s, x), x) EXCEPT !.it = IntoIter(NULL, 0)]
    ELSE [Forget(s, x) EXCEPT !.it = IntoIter(s.arr[x], 0)]

\* IntoIter::next.  The slot at index is read without comparing index with
\* len; reading a slot that holds no element yields arbitrary bits (garbage)
next(s, garbage) ==
    IF s.it.header = NULL
    THEN [s EXCEPT !.ret = None]
    ELSE LET hp == s.it.header
             h == s.mem[hp]
             l == h.len
             i == s.it.index
             init == i < h.cap /\ h.slots[i + 1] # Uninit
             res == IF init THEN h.slots[i + 1] ELSE garbage
             s1 == [s EXCEPT !.ret = res,
                             !.yielded = Append(@, res),
                             !.mem[hp] =
                                 Header(h.len, h.cap,
                                        [k \in 1..h.cap |->
                                            IF k = i + 1 THEN Uninit ELSE h.slots[k]]),
                             !.it.index = i + 1,
                             !.ub = @ \cup (IF init THEN {} ELSE {"uninit_read"})]
         IN IF i + 1 >= l
            THEN [Dealloc(s1, hp) EXCEPT !.it.header = NULL]
            ELSE s1

\* Drop for IntoIter: while self.next().is_some() {}
RECURSIVE DrainLoop(_, _)
DrainLoop(s, garbage) ==
    LET n == next(s, garbage)
    IN IF n.ret # None THEN DrainLoop(n, garbage) ELSE n

(* --------------------------- reference list --------------------------- *)
\* the reference list r of array x replaced by q
RefSet(x, q) == [y \in (DOMAIN ref) \cup {x} |-> IF y = x THEN q ELSE ref[y]]
RefDel(x) == [y \in (DOMAIN ref) \ {x} |-> ref[y]]

RefPop(q) == IF Len(q) = 0 THEN q ELSE SubSeq(q, 1, Len(q) - 1)
RefPopRet(q) == IF Len(q) = 0 THEN None ELSE q[Len(q)]
RefInsert(q, i, v) ==
    IF i <= Len(q) THEN SubSeq(q, 1, i) \o <<v>> \o SubSeq(q, i + 1, Len(q)) ELSE q
RefRemove(q, i) ==
    IF i < Len(q) THEN SubSeq(q, 1, i) \o SubSeq(q, i + 2, Len(q)) ELSE q
RefRemoveRet(q, i) == IF i < Len(q) THEN q[i + 1] ELSE None
RefSwapRemove(q, i) ==
    IF i < Len(q)
    THEN SubSeq([q EXCEPT ![i + 1] = q[Len(q)]], 1, Len(q) - 1)
    ELSE q
RefTruncate(q, n) == SubSeq(q, 1, Min(n, Len(q)))
RefSet1(q, i, v) == IF i < Len(q) THEN [q EXCEPT ![i + 1] = v] ELSE q

(* ------------------------------ actions ------------------------------- *)
\* the record of the operation just performed on `who`, with the state
\* `who` was in before it
NoRec(op, who) ==
    [op |-> op, who |-> who, index |-> 0, item |-> None,
     ret |-> None, panic |-> FALSE, dropped |-> <<>>,
     before |-> <<>>, capBefore |-> 0,
     refRet |-> None, paired |-> FALSE, pairItem |-> None, pairOrig |-> <<>>]

Rec(op, who, index, item, s, refRet) ==
    IF history = "none" THEN NoRec("none", "none")
    ELSE [op |-> op, who |-> who, index |-> index, item |-> item,
          ret |-> s.ret, panic |-> s.panic, dropped |-> s.dropped,
          before |-> IF who \in DOMAIN arr THEN as_slice(St, who) ELSE <<>>,
          capBefore |-> IF who \in DOMAIN arr THEN capacity(St, who) ELSE 0,
          refRet |-> refRet,
          paired |-> FALSE, pairItem |-> None, pairOrig |-> <<>>]

\* the state the operation left becomes the current state; nothing is
\* explored after undefined behaviour, and an operation that would need a
\* block or an address beyond the bounds is not taken
Commit(s, r, rec) ==
    /\ ub = {}
    /\ s.fits
    /\ mem' = s.mem
    /\ allocated' = s.allocated
    /\ arr' = s.arr
    /\ ub' = s.ub
    /\ it' = s.it
    /\ yielded' = s.yielded
    /\ ref' = r
    /\ last' = rec
    /\ UNCHANGED <<history, rvars>>

\* the record of a finished iteration is discarded when a new array is made
StartYielded == IF it.alive THEN yielded ELSE <<>>
StartItSrc == IF it.alive THEN itSrc ELSE <<>>

New ==
    \E x \in {"a"} \ DOMAIN arr :
        /\ Commit([new(St, x) EXCEPT !.yielded = StartYielded],
                  RefSet(x, <<>>), Rec("new", x, 0, None, St, None))
        /\ itSrc' = StartItSrc

WithCapacity ==
    \E x \in {"a"} \ DOMAIN arr, cap \in 0..MaxCap :
        LET s == [with_capacity(St, x, cap) EXCEPT !.yielded = StartYielded]
        IN /\ Commit(s, RefSet(x, <<>>), Rec("with_capacity", x, cap, None, s, None))
           /\ itSrc' = StartItSrc

Reserve ==
    \E x \in DOMAIN arr, additional \in 0..MaxCap, move \in BOOLEAN :
        LET s == reserve(St, x, additional, move)
        IN /\ Commit(s, ref, Rec("reserve", x, additional, None, s, None))
           /\ UNCHANGED itSrc

Truncate ==
    \E x \in DOMAIN arr, n \in 0..MaxCap :
        LET s == truncate(St, x, n)
        IN /\ Commit(s, RefSet(x, RefTruncate(ref[x], n)),
                     Rec("truncate", x, n, None, s, None))
           /\ UNCHANGED itSrc

Clear ==
    \E x \in DOMAIN arr :
        LET s == clear(St, x)
        IN /\ Commit(s, RefSet(x, <<>>), Rec("clear", x, 0, None, s, None))
           /\ UNCHANGED itSrc

Insert ==
    \E x \in DOMAIN arr, index \in 0..MaxCap, item \in Values, move \in BOOLEAN :
        LET s == insert(St, x, index, item, move)
        IN /\ Commit(s, RefSet(x, RefInsert(ref[x], index, item)),
                     Rec("insert", x, index, item, s, None))
           /\ UNCHANGED itSrc

Remove ==
    \E x \in DOMAIN arr, index \in 0..MaxCap :
        LET s == remove(St, x, index)
            follows == /\ history = "full" /\ last.op = "insert" /\ ~last.panic
                       /\ last.who = x /\ last.index = index
        IN /\ Commit(s, RefSet(x, RefRemove(ref[x], index)),
                     IF follows
                     THEN [Rec("remove", x, index, None, s, RefRemoveRet(ref[x], index))
                             EXCEPT !.paired = TRUE,
                                    !.pairItem = last.item,
                                    !.pairOrig = last.before]
                     ELSE Rec("remove", x, index, None, s, RefRemoveRet(ref[x], index)))
           /\ UNCHANGED itSrc

SwapRemove ==
    \E x \in DOMAIN arr, index \in 0..MaxCap :
        LET s == swap_remove(St, x, index)
        IN /\ Commit(s, RefSet(x, RefSwapRemove(ref[x], index)),
                     Rec("swap_remove", x, index, None, s, RefRemoveRet(ref[x], index)))
           /\ UNCHANGED itSrc

Push ==
    \E x \in DOMAIN arr, item \in Values, move \in BOOLEAN :
        LET s == push(St, x, item, move)
        IN /\ Commit(s, RefSet(x, Append(ref[x], item)),
                     Rec("push", x, 0, item, s, None))
           /\ UNCHANGED itSrc

Pop ==
    \E x \in DOMAIN arr :
        LET s == pop(St, x)
        IN /\ Commit(s, RefSet(x, RefPop(ref[x])),
                     Rec("pop", x, 0, None, s, RefPopRet(ref[x])))
           /\ UNCHANGED itSrc

ShrinkToFit ==
    \E x \in DOMAIN arr, move \in BOOLEAN :
        LET s == shrink_to_fit(St, x, move)
        IN /\ Commit(s, ref, Rec("shrink_to_fit", x, 0, None, s, None))
           /\ UNCHANGED itSrc

IndexMutSet ==
    \E x \in DOMAIN arr, index \in 0..MaxCap, item \in Values :
        LET s == index_mut_set(St, x, index, item)
        IN /\ Commit(s, RefSet(x, RefSet1(ref[x], index, item)),
                     Rec("index_mut", x, index, item, s, None))
           /\ UNCHANGED itSrc

Clone ==
    \E x \in DOMAIN arr, y \in Names \ DOMAIN arr :
        LET s == clone_impl(St, x, y)
        IN /\ Commit(s, RefSet(y, ref[x]), Rec("clone", x, 0, None, s, None))
           /\ UNCHANGED itSrc

Drop ==
    \E x \in DOMAIN arr :
        LET s == Forget(drop_impl(St, x), x)
        IN /\ Commit(s, RefDel(x), Rec("drop", x, 0, None, s, None))
           /\ UNCHANGED itSrc

IntoIterate ==
    \E x \in DOMAIN arr :
        /\ ~it.alive
        /\ LET s == [into_iter(St, x) EXCEPT !.yielded = <<>>]
           IN Commit(s, RefDel(x), Rec("into_iter", x, 0, None, s, None))
        /\ itSrc' = as_slice(St, x)

\* the caller pulls one value
IterNext ==
    \E garbage \in Values :
        /\ it.alive
        /\ LET s == next(St, garbage)
           IN Commit(s, ref, Rec("next", "it", Len(yielded), it.header, s, None))
        /\ UNCHANGED itSrc

\* the iterator goes out of scope after the caller pulled last.index values
\* (last.item is the block it held, NULL when it was exhausted)
IterDrop ==
    \E garbage \in Values :
        /\ it.alive
        /\ LET s == [DrainLoop(St, garbage) EXCEPT !.it = NoIter]
           IN Commit(s, ref, Rec("iter_drop", "it", Len(yielded), it.header, s, None))
        /\ UNCHANGED itSrc

(* ----------------------- values and numbers -------------------------- *)
\* Option<T> as a sequence of at most one element
Some(v) == <<v>>
NoneOpt == <<>>

\* i64::MIN, i64::MAX and u64::MAX at the modelled width
I64_MIN == 0 - 2 ^ (Bits - 1)
I64_MAX == 2 ^ (Bits - 1) - 1
U64_MAX == 2 ^ Bits - 1

\* INumber: a whole number stored as an integer (v), or a number stored
\* with a decimal point; a float is kept as its value times two (h)
NumInt(v) == [kind |-> "int", v |-> v]
NumFloat(h) == [kind |-> "float", h |-> h]

\* INumber::has_decimal_point
has_decimal_point(n) == n.kind = "float"

\* INumber::to_i64: the value when it fits a signed integer
to_i64(n) ==
    IF n.kind = "int"
    THEN IF I64_MIN <= n.v /\ n.v <= I64_MAX THEN Some(n.v) ELSE NoneOpt
    ELSE IF n.h % 2 = 0 /\ I64_MIN <= n.h \div 2 /\ n.h \div 2 <= I64_MAX
         THEN Some(n.h \div 2) ELSE NoneOpt

\* INumber::to_u64: the value when it fits an unsigned integer
to_u64(n) ==
    IF n.kind = "int"
    THEN IF 0 <= n.v /\ n.v <= U64_MAX THEN Some(n.v) ELSE NoneOpt
    ELSE IF n.h % 2 = 0 /\ 0 <= n.h \div 2 /\ n.h \div 2 <= U64_MAX
         THEN Some(n.h \div 2) ELSE NoneOpt

\* INumber::to_f64 (times two)
to_f64(n) == IF n.kind = "int" THEN Some(2 * n.v) ELSE Some(n.h)

\* INumber::from(u64), INumber::from(i64), INumber::try_from(f64)
INumberFromU64(u) == NumInt(u)
INumberFromI64(i) == NumInt(i)
INumberTryFromF64(h) == Some(NumFloat(h))

\* equality of numbers is equality of their values
INumberEq(m, n) ==
    (IF m.kind = "int" THEN 2 * m.v ELSE m.h) = (IF n.kind = "int" THEN 2 * n.v ELSE n.h)

\* the destructured IValue
VNull == [t |-> "null"]
VBool(b) == [t |-> "bool", b |-> b]
VNumber(n) == [t |-> "num", n |-> n]
VString(s) == [t |-> "str", s |-> s]
VArray(a) == [t |-> "arr", a |-> a]
\* an IObject is its entries <<key, value>> in insertion order, keys unique
VObject(o) == [t |-> "obj", o |-> o]

Strings == {"a", "b"}
\* the order of String keys in a BTreeMap
StrRank(s) == IF s = "a" THEN 1 ELSE 2

ObjKeys(o) == {o[i][1] : i \in DOMAIN o}
ObjGet(o, k) == o[CHOOSE i \in DOMAIN o : o[i][1] = k][2]

\* PartialEq for IValue: structural; objects compare as mappings
RECURSIVE IValueEq(_, _)
IValueEq(x, y) ==
    /\ x.t = y.t
    /\ CASE x.t = "null" -> TRUE
         [] x.t = "bool" -> x.b = y.b
         [] x.t = "num" -> INumberEq(x.n, y.n)
         [] x.t = "str" -> x.s = y.s
         [] x.t = "arr" -> /\ Len(x.a) = Len(y.a)
                           /\ \A i \in DOMAIN x.a : IValueEq(x.a[i], y.a[i])
         [] x.t = "obj" -> /\ Len(x.o) = Len(y.o)
                           /\ ObjKeys(x.o) = ObjKeys(y.o)
                           /\ \A k \in ObjKeys(x.o) :
                                 IValueEq(ObjGet(x.o, k), ObjGet(y.o, k))

\* IObject::insert: a new key is appended, a present one gets the new value
IObjectInsert(o, k, v) ==
    IF k \in ObjKeys(o)
    THEN [i \in DOMAIN o |-> IF o[i][1] = k THEN <<k, v>> ELSE o[i]]
    ELSE Append(o, <<k, v>>)

\* IObject::from_iter
RECURSIVE IObjectFromIter(_, _)
IObjectFromIter(entries, i) ==
    IF i = 0 THEN <<>>
    ELSE IObjectInsert(IObjectFromIter(entries, i - 1), entries[i][1], entries[i][2])

(* ------------------------- ArchivableJson ----------------------------- *)
\* enum JsonNumber
PosInt(u) == [tag |-> "PosInt", v |-> u]
NegInt(i) == [tag |-> "NegInt", v |-> i]
Float(h) == [tag |-> "Float", v |-> h]

\* enum ArchivableJson
JNull == [t |-> "Null"]
JBool(b) == [t |-> "Bool", b |-> b]
JNumber(n) == [t |-> "Number", n |-> n]
JString(s) == [t |-> "String", s |-> s]
JArray(a) == [t |-> "Array", a |-> a]
\* a BTreeMap<String, ArchivableJson> is its entries in key order
JObject(o) == [t |-> "Object", o |-> o]

\* BTreeMap::insert
BTreeInsert(m, k, v) ==
    IF k \in ObjKeys(m)
    THEN [i \in DOMAIN m |-> IF m[i][1] = k THEN <<k, v>> ELSE m[i]]
    ELSE LET below == Cardinality({i \in DOMAIN m : StrRank(m[i][1]) < StrRank(k)})
         IN SubSeq(m, 1, below) \o <<(<<k, v>>)>> \o SubSeq(m, below + 1, Len(m))

\* collect::<BTreeMap<_, _>>()
RECURSIVE BTreeCollect(_, _)
BTreeCollect(entries, i) ==
    IF i = 0 THEN <<>>
    ELSE BTreeInsert(BTreeCollect(entries, i - 1), entries[i][1], entries[i][2])

\* the Number arm trying the unsigned conversion before the signed one
JsonNumberFromUnsignedFirst(n) ==
    IF has_decimal_point(n) THEN Float(to_f64(n)[1])
    ELSE IF to_u64(n) # NoneOpt THEN PosInt(to_u64(n)[1])
    ELSE NegInt(to_i64(n)[1])

\* the Number arm trying the signed conversion before the decimal-point test
JsonNumberFromIntegerFirst(n) ==
    IF to_i64(n) # NoneOpt THEN NegInt(to_i64(n)[1])
    ELSE IF has_decimal_point(n) THEN Float(to_f64(n)[1])
    ELSE PosInt(to_u64(n)[1])

\* the Number arm of From<&IValue> for ArchivableJson
JsonNumberFrom(n) ==
    IF has_decimal_point(n) THEN Float(to_f64(n)[1])
    ELSE IF to_i64(n) # NoneOpt THEN NegInt(to_i64(n)[1])
    ELSE PosInt(to_u64(n)[1])

\* From<&IValue> for ArchivableJson
RECURSIVE ArchivableJsonFrom(_)
ArchivableJsonFrom(v) ==
    CASE v.t = "null" -> JNull
      [] v.t = "bool" -> JBool(v.b)
      [] v.t = "num" -> JNumber(JsonNumberFrom(v.n))
      [] v.t = "str" -> JString(v.s)
      [] v.t = "arr" -> JArray([i \in 1..Len(v.a) |-> ArchivableJsonFrom(v.a[i])])
      [] v.t = "obj" ->
            JObject(BTreeCollect([i \in 1..Len(v.o) |->
                                    <<v.o[i][1], ArchivableJsonFrom(v.o[i][2])>>],
                                 Len(v.o)))

\* the Number arm building a PosInt through the signed constructor
\* (`u as i64`, which wraps above i64::MAX)
INumberFromJsonSignedCast(n) ==
    CASE n.tag = "PosInt" ->
            INumberFromI64(IF n.v > I64_MAX THEN n.v - 2 ^ Bits ELSE n.v)
      [] n.tag = "NegInt" -> INumberFromI64(n.v)
      [] n.tag = "Float" -> INumberTryFromF64(n.v)[1]

\* the Number arm of From<ArchivableJson> for IValue
INumberFromJson(n) ==
    CASE n.tag = "PosInt" -> INumberFromU64(n.v)
      [] n.tag = "NegInt" -> INumberFromI64(n.v)
      [] n.tag = "Float" -> INumberTryFromF64(n.v)[1]

\* From<ArchivableJson> for IValue
RECURSIVE IValueFrom(_)
IValueFrom(j) ==
    CASE j.t = "Null" -> VNull
      [] j.t = "Bool" -> IF j.b THEN VBool(TRUE) ELSE VBool(FALSE)
      [] j.t = "Number" -> VNumber(INumberFromJson(j.n))
      [] j.t = "String" -> VString(j.s)
      [] j.t = "Array" -> VArray([i \in 1..Len(j.a) |-> IValueFrom(j.a[i])])
      [] j.t = "Object" ->
            VObject(IObjectFromIter([i \in 1..Len(j.o) |->
                                       <<j.o[i][1], IValueFrom(j.o[i][2])>>],
                                    Len(j.o)))

(* ----------------------- the archived values -------------------------- *)
\* sequences over S of length at most n
RECURSIVE SeqsUpTo(_, _)
SeqsUpTo(S, n) ==
    IF n = 0 THEN {<<>>}
    ELSE LET shorter == SeqsUpTo(S, n - 1)
         IN shorter \cup {Append(q, e) : q \in {r \in shorter : Len(r) = n - 1}, e \in S}

\* key-unique entry lists over S, in every insertion order
ObjectsOver(S) ==
    {o \in SeqsUpTo(Strings \X S, Min(MaxLen, Cardinality(Strings))) :
        Cardinality(ObjKeys(o)) = Len(o)}

\* every whole number of the signed or unsigned range, and some floats
Numbers ==
    {NumInt(v) : v \in I64_MIN..U64_MAX} \cup {NumFloat(h) : h \in {0 - 3, 0, 1, 4, 5}}

Scalars ==
    {VNull, VBool(TRUE), VBool(FALSE)} \cup {VNumber(n) : n \in Numbers}
        \cup {VString(s) : s \in Strings}

\* the elements of the containers
Leaves ==
    {VNull, VBool(TRUE), VNumber(NumInt(1)), VNumber(NumInt(U64_MAX)),
     VNumber(NumFloat(5)), VString("a")}

Inner == {VArray(a) : a \in SeqsUpTo(Leaves, MaxLen)}
             \cup {VObject(o) : o \in ObjectsOver(Leaves)}

\* the elements of the containers of containers
Nested ==
    {VNull, VNumber(NumInt(I64_MIN)),
     VArray(<<VNumber(NumInt(1)), VNumber(NumFloat(5))>>),
     VObject(<<(<<"b", VNumber(NumInt(U64_MAX))>>), (<<"a", VString("a")>>)>>)}

Outer == {VArray(a) : a \in SeqsUpTo(Nested, MaxLen)}
             \cup {VObject(o) : o \in ObjectsOver(Nested)}

ValueTrees == Scalars \cup Inner \cup Outer

\* no conversion is running
RIdle ==
    /\ value = VNull
    /\ archived = JNull
    /\ decoded = VNull
    /\ pc = "idle"

\* ArchivableJson::from(&value)
Archive ==
    /\ pc = "start"
    /\ archived' = ArchivableJsonFrom(value)
    /\ pc' = "archived"
    /\ UNCHANGED <<value, decoded, avars>>

\* IValue::from(archived)
Restore ==
    /\ pc = "archived"
    /\ decoded' = IValueFrom(archived)
    /\ pc' = "done"
    /\ UNCHANGED <<value, archived, avars>>

\* the state after `let a = IArray::new()`
InitArray ==
    /\ mem = [p \in {EMPTY} \cup Addrs |-> EMPTY_HEADER]
    /\ allocated = {}
    /\ arr = [x \in {"a"} |-> EMPTY]
    /\ ub = {}
    /\ it = NoIter
    /\ itSrc = <<>>
    /\ yielded = <<>>
    /\ ref = [x \in {"a"} |-> <<>>]
    /\ last = NoRec("new", "a")

Init == InitArray /\ history = "full" /\ RIdle

InitClone == InitArray /\ history = "none" /\ RIdle

\* a value tree about to be archived
InitArchive ==
    /\ InitArray /\ history = "none"
    /\ value \in ValueTrees
    /\ archived = JNull
    /\ decoded = VNull
    /\ pc = "start"

\* one array and every operation on it
Next ==
    \/ New \/ WithCapacity \/ Reserve \/ Truncate \/ Clear \/ Insert \/ Remove
    \/ SwapRemove \/ Push \/ Pop \/ ShrinkToFit \/ IndexMutSet \/ Drop

Spec == Init /\ [][Next]_vars

\* an array, its clone, and the operations applied to either of them, on
\* arrays of at most CloneMaxCap slots
CloneFits == \A x \in DOMAIN arr' : mem'[arr'[x]].cap <= CloneMaxCap
NextClone ==
    \/ (New /\ CloneFits) \/ (WithCapacity /\ CloneFits)
    \/ (Clone /\ CloneFits) \/ (Reserve /\ CloneFits)
    \/ (Push /\ CloneFits) \/ (Pop /\ CloneFits)
    \/ (Insert /\ CloneFits) \/ (Remove /\ CloneFits)
    \/ (SwapRemove /\ CloneFits) \/ (Truncate /\ CloneFits)
    \/ (Clear /\ CloneFits) \/ (ShrinkToFit /\ CloneFits)
    \/ (IndexMutSet /\ CloneFits) \/ (Drop /\ CloneFits)

SpecClone == InitClone /\ [][NextClone]_vars

\* an array built by any operations, then destroyed or consumed by an
\* iterator
NextIter ==
    \/ (~it.alive /\ New) \/ (~it.alive /\ WithCapacity)
    \/ Reserve \/ Truncate \/ Clear \/ Push \/ Pop \/ ShrinkToFit \/ Drop
    \/ IntoIterate \/ IterNext \/ IterDrop

SpecIter == Init /\ [][NextIter]_vars

\* a value is archived and converted back
NextArchive == Archive \/ Restore

SpecArchive == InitArchive /\ [][NextArchive]_vars

(* ====================================================================== *)
(*                               claims                                   *)
(* ====================================================================== *)

\* the array the last operation was applied to is alive
Alive == last.who \in DOMAIN arr

\* C1: after every step of any sequence of operations on an array started
\* by new(), len() and as_slice() equal the reference list that performed
\* the same operations, and every pop() returned what popping the
\* reference list returned (nothing when the list was empty).
C1_PushPopMatchesReference ==
    /\ \A x \in DOMAIN arr :
          /\ as_slice(St, x) = ref[x]
          /\ len(St, x) = Len(ref[x])
    /\ (last.op = "pop" => last.ret = last.refRet)

C1_Witness ==
    /\ last.op = "pop" /\ Alive
    /\ last.ret # None
    /\ Len(last.before) = 2
    /\ as_slice(St, last.who) = <<last.before[1]>>

\* the last operation was a full truncation or a fresh new()
FullTruncation ==
    /\ Alive
    /\ \/ last.op \in {"new", "clear"}
       \/ last.op = "truncate" /\ last.index = 0
       \/ last.op = "pop" /\ last.ret # None /\ len(St, last.who) = 0

\* C3 as stated: after an operation sequence ending in a full truncation
\* or a fresh new(), len() == 0 if and only if the array is static.
C3_EmptyIffStatic ==
    FullTruncation => (len(St, last.who) = 0 <=> is_static(St, last.who))

\* C3 amended: after a full truncation or a fresh new(), len() == 0, the
\* capacity is what it was before (0 for new()), and so the array is static
\* exactly when it was static before; a static array always has len() == 0.
C3_EmptyKeepsCapacity ==
    /\ FullTruncation =>
          /\ len(St, last.who) = 0
          /\ capacity(St, last.who) = last.capBefore
          /\ (is_static(St, last.who) <=> last.capBefore = 0)
    /\ \A x \in DOMAIN arr : is_static(St, x) => len(St, x) = 0

C3_Witness ==
    /\ last.op = "clear" /\ Alive
    /\ Len(last.before) >= 2
    /\ len(St, last.who) = 0
    /\ ~is_static(St, last.who)

\* C4: reserve(n) never decreases capacity(), and when it returns
\* capacity() >= len() + n.
C4_ReserveGrows ==
    (last.op = "reserve" /\ Alive) =>
        /\ capacity(St, last.who) >= last.capBefore
        /\ capacity(St, last.who) >= len(St, last.who) + last.index

C4_Witness ==
    /\ last.op = "reserve" /\ Alive
    /\ last.capBefore > 0
    /\ Len(last.before) > 0
    /\ capacity(St, last.who) > last.capBefore
    /\ as_slice(St, last.who) = last.before

\* C5: insert(i, x) with i <= len directly followed by remove(i) returns x
\* and leaves the element sequence and len() as they were before the insert.
C5_InsertRemoveRestores ==
    (last.op = "remove" /\ last.paired) =>
        /\ ~last.panic
        /\ last.ret = last.pairItem
        /\ as_slice(St, last.who) = last.pairOrig
        /\ len(St, last.who) = Len(last.pairOrig)

C5_Witness ==
    /\ last.op = "remove" /\ last.paired /\ Alive
    /\ Len(last.pairOrig) = 2
    /\ last.index = 1
    /\ last.pairOrig[1] # last.pairOrig[2]
    /\ last.ret = last.pairItem

\* C6: swap_remove(i) with i < len returns the element that was at i and
\* leaves len - 1 elements: position i (unless i was the last index) holds
\* the former last element, every other position is unchanged.
C6_SwapRemove ==
    (last.op = "swap_remove" /\ ~last.panic) =>
        LET b == last.before
            n == Len(b)
            now == as_slice(St, last.who)
        IN /\ last.index < n
           /\ last.ret = b[last.index + 1]
           /\ len(St, last.who) = n - 1
           /\ Len(now) = n - 1
           /\ \A j \in 1..(n - 1) :
                 now[j] = IF j = last.index + 1 THEN b[n] ELSE b[j]

\* [a, b, c].swap_remove(0) returned a and left [c, b]
C6_Witness ==
    /\ last.op = "swap_remove" /\ ~last.panic /\ Alive
    /\ Len(last.before) = 3
    /\ last.index = 0
    /\ last.before[2] # last.before[3]
    /\ last.ret = last.before[1]
    /\ as_slice(St, last.who) = <<last.before[3], last.before[2]>>

\* C2 as stated: the consuming iterator reads a slot only when the cursor
\* is < len, so the values it produced are a prefix of the array's elements
\* in index order, never more than len() of them, all of them once it is
\* exhausted, and no slot without an element was read.
C2_IterYieldsElements ==
    /\ Len(yielded) <= Len(itSrc)
    /\ yielded = SubSeq(itSrc, 1, Len(yielded))
    /\ (it.alive /\ it.header = NULL => yielded = itSrc)
    /\ "uninit_read" \notin ub

\* the elements array p points at, and its len, in heap m
Elems(m, p) == HeaderAsSlice(m[p])
Untouched(x) ==
    /\ x \in DOMAIN arr'
    /\ Elems(mem', arr'[x]) = Elems(mem, arr[x])
    /\ mem'[arr'[x]].len = mem[arr[x]].len

\* C7: a clone has the elements of its source and owns a different heap
\* block (or none); afterwards every operation applied to one of the two
\* arrays leaves the other's len() and element sequence unchanged.
C7_CloneIndependent ==
    [][/\ \A x, y \in DOMAIN arr : x # y => Untouched(x) \/ Untouched(y)
       /\ \A x, y \in DOMAIN arr' :
             x # y => arr'[x] = EMPTY \/ arr'[x] # arr'[y]
       /\ Clone => \A x \in DOMAIN arr, y \in DOMAIN arr' \ DOMAIN arr :
                      /\ Untouched(x)
                      /\ Elems(mem', arr'[y]) = Elems(mem, arr[x])
                      /\ mem'[arr'[y]].len = mem[arr[x]].len]_vars

\* both arrays are heap-backed and have diverged since the clone
C7_Witness ==
    /\ DOMAIN arr = {"a", "b"}
    /\ arr["a"] # EMPTY /\ arr["b"] # EMPTY /\ arr["a"] # arr["b"]
    /\ Len(as_slice(St, "a")) = 2 /\ Len(as_slice(St, "b")) = 1
    /\ as_slice(St, "a")[1] # as_slice(St, "b")[1]

\* C8 as stated: an iterator dropped after the caller pulled k of the n
\* elements has handed out each of the n elements exactly once (to the
\* caller or to the drain) and nothing else, and its block is freed.
C8_EarlyDropDrains ==
    last.op = "iter_drop" =>
        /\ yielded = itSrc
        /\ (last.item = NULL \/ last.item \notin allocated)
        /\ ub = {}

\* C9: converting a value tree to ArchivableJson and back yields a value
\* structurally equal to the original (array order kept, every object key
\* mapped to the round-tripped value).
C9_RoundTrip == pc = "done" => IValueEq(decoded, value)

\* an object holding an array and a number above i64::MAX, whose entries
\* come back in key order
C9_Witness ==
    /\ pc = "done"
    /\ value.t = "obj" /\ Len(value.o) = 2
    /\ value.o[1][1] = "b" /\ value.o[1][2].t = "arr"
    /\ value.o[2][2].t = "obj"
    /\ decoded.o[1][1] = "a"
    /\ IValueEq(decoded, value)

\* a whole number v >= 0 of the unsigned range has been archived
WholeNonNegative ==
    /\ pc \in {"archived", "done"}
    /\ value.t = "num"
    /\ ~has_decimal_point(value.n)
    /\ 0 <= value.n.v /\ value.n.v <= U64_MAX

\* C10 as stated: every whole number from 0 to u64::MAX is archived as
\* NegInt, never as PosInt, and converts back to an equal number.
C10_AlwaysSigned ==
    WholeNonNegative =>
        /\ archived.n.tag = "NegInt"
        /\ (pc = "done" => IValueEq(decoded, value))

\* C10 amended: every whole number from 0 to i64::MAX is archived as
\* NegInt, never as PosInt; the whole numbers above i64::MAX up to u64::MAX
\* are archived as PosInt; both convert back to an equal number.
C10_SignedWhenItFits ==
    WholeNonNegative =>
        /\ archived.n.tag = (IF value.n.v <= I64_MAX THEN "NegInt" ELSE "PosInt")
        /\ archived.n.v = value.n.v
        /\ (pc = "done" => IValueEq(decoded, value))

C10_Witness ==
    /\ WholeNonNegative /\ pc = "done"
    /\ value.n.v = I64_MAX
    /\ archived.n = NegInt(I64_MAX)
    /\ decoded = value

C12_FailedCallChangesNothing ==
    (last.op \in {"insert", "remove", "swap_remove"} /\ last.panic /\ Alive) =>
        /\ len(St, last.who) = Len(last.before)
        /\ as_slice(St, last.who) = last.before
        /\ capacity(St, last.who) = last.capBefore
        /\ (arr[last.who] = EMPTY <=> last.capBefore = 0)

\* C13: every block, and the static header, has len <= cap, and no
\* Header::push wrote a slot outside the block of the array.
C13_LenWithinCap ==
    /\ \A p \in allocated \cup {EMPTY} : mem[p].len <= mem[p].cap
    /\ \A x \in DOMAIN arr : len(St, x) <= capacity(St, x)
    /\ "oob_write" \notin ub

\* a push wrote the last free slot of a block of at least two slots
C13_Witness ==
    /\ last.op = "push" /\ Alive
    /\ last.capBefore >= 2
    /\ capacity(St, last.who) = last.capBefore
    /\ len(St, last.who) = capacity(St, last.who)
    /\ as_slice(St, last.who) = Append(last.before, last.item)

\* C14: no allocated block has capacity 0: an array of capacity 0 points at
\* the static header; with_capacity(0) gives the static array, and
\* shrink_to_fit() on a heap-backed array of len 0 leaves it static with
\* its block freed.
C14_ZeroCapacityIsStatic ==
    /\ \A p \in allocated : mem[p].cap > 0
    /\ \A x \in DOMAIN arr : capacity(St, x) = 0 => arr[x] = EMPTY
    /\ (last.op = "with_capacity" /\ last.index = 0 /\ Alive) =>
          arr[last.who] = EMPTY
    /\ (last.op = "shrink_to_fit" /\ Len(last.before) = 0 /\ Alive) =>
          /\ arr[last.who] = EMPTY
          /\ allocated = {arr[x] : x \in DOMAIN arr} \ {EMPTY}

\* shrink_to_fit() gave up the block of an emptied heap-backed array
C14_Witness ==
    /\ last.op = "shrink_to_fit" /\ Alive
    /\ last.capBefore > 0
    /\ Len(last.before) = 0
    /\ arr[last.who] = EMPTY
    /\ allocated = {}

\* the heap blocks held by the live arrays and by the iterator
ArrayBlocks == {arr[x] : x \in DOMAIN arr} \ {EMPTY}
IterBlocks == IF it.alive /\ it.header # NULL THEN {it.header} ELSE {}

C16_CursorWithinLen ==
    it.alive =>
        /\ it.index <= Len(itSrc)
        /\ (it.header = NULL <=> it.index = Len(itSrc))

\* a number has been archived
NumberArchived == pc \in {"archived", "done"} /\ value.t = "num"

\* the value of a number, times two
TwiceValue(n) == IF n.kind = "int" THEN 2 * n.v ELSE n.h

\* C17: the variant of an archived number is Float when the number has a
\* decimal point, otherwise NegInt when its value lies in
\* i64::MIN..i64::MAX, otherwise PosInt, and it carries the number's value;
\* so PosInt is produced only for whole numbers above i64::MAX, and two
\* numbers that agree in value and in having a decimal point are archived
\* alike.
C17_ThreeStepRule ==
    /\ NumberArchived =>
          /\ archived.t = "Number"
          /\ archived.n.tag =
                (IF value.n.kind = "float" THEN "Float"
                 ELSE IF I64_MIN <= value.n.v /\ value.n.v <= I64_MAX THEN "NegInt"
                 ELSE "PosInt")
          /\ archived.n.v = (IF value.n.kind = "float" THEN value.n.h ELSE value.n.v)
          /\ (archived.n.tag = "PosInt" =>
                 /\ ~has_decimal_point(value.n)
                 /\ value.n.v > I64_MAX)
          /\ \A m \in Numbers :
                (/\ has_decimal_point(m) = has_decimal_point(value.n)
                 /\ TwiceValue(m) = TwiceValue(value.n))
                    => ArchivableJsonFrom(VNumber(m)) = archived

\* 2.0, a number with a decimal point that would fit a signed integer, has
\* been archived as Float
C17_Witness ==
    /\ NumberArchived
    /\ value.n = NumFloat(4)
    /\ to_i64(value.n) = Some(2)
    /\ archived.n = Float(4)

\* the sequence q back to front
RECURSIVE Reversed(_)
Reversed(q) == IF Len(q) = 0 THEN <<>> ELSE Append(Reversed(Tail(q)), Head(q))

\* the step was operation op of the one-array specification
Did(ops) == history = "full" /\ last'.op \in ops /\ last'.who \in DOMAIN arr

\* C18: truncate(n) leaves len() = min(old len, n) and the first
\* min(old len, n) elements as they were, destructs each removed element
\* once (the last one first), and leaves capacity() unchanged; on the static
\* array and for n >= len it changes nothing at all; clear() does what
\* truncate(0) does.
C18_Truncate ==
    [][Did({"truncate", "clear"}) =>
         LET x == last'.who
             n == last'.index
             old == Elems(mem, arr[x])
             keep == Min(Len(old), n)
         IN /\ x \in DOMAIN arr'
            /\ ~last'.panic
            /\ mem'[arr'[x]].len = keep
            /\ Elems(mem', arr'[x]) = SubSeq(old, 1, keep)
            /\ last'.dropped = Reversed(SubSeq(old, keep + 1, Len(old)))
            /\ mem'[arr'[x]].cap = mem[arr[x]].cap
            /\ arr' = arr /\ allocated' = allocated
            /\ (arr[x] = EMPTY \/ n >= Len(old)) => mem' = mem
            /\ last'.op = "clear" =>
                  /\ n = 0
                  /\ mem' = truncate(St, x, 0).mem]_vars

\* truncate(1) of [a, b, c] left [a] and destructed c, then b
C18_Witness ==
    /\ last.op = "truncate" /\ Alive
    /\ last.index = 1
    /\ Len(last.before) = 3
    /\ last.before[2] # last.before[3]
    /\ as_slice(St, last.who) = <<last.before[1]>>
    /\ last.dropped = <<last.before[3], last.before[2]>>
    /\ capacity(St, last.who) = last.capBefore

\* C19: after shrink_to_fit() capacity() = len(), len() and the elements
\* are what they were, and the array points at the static header exactly
\* when len() = 0.
C19_ShrinkToFit ==
    (last.op = "shrink_to_fit" /\ Alive) =>
        /\ capacity(St, last.who) = len(St, last.who)
        /\ len(St, last.who) = Len(last.before)
        /\ as_slice(St, last.who) = last.before
        /\ (arr[last.who] = EMPTY <=> len(St, last.who) = 0)
        /\ (is_static(St, last.who) <=> len(St, last.who) = 0)

\* shrink_to_fit() cut a block of four slots down to its two elements
C19_Witness ==
    /\ last.op = "shrink_to_fit" /\ Alive
    /\ last.capBefore = 4
    /\ Len(last.before) = 2
    /\ last.before[1] # last.before[2]
    /\ capacity(St, last.who) = 2
    /\ as_slice(St, last.who) = last.before

\* C20: reserve(additional) changes nothing when capacity >= len +
\* additional; otherwise the capacity becomes max(2 * capacity, len +
\* additional); len() and the elements are unchanged either way.  So a
\* push on an array with len = cap > 0 doubles the capacity, and a push on
\* the static array gives capacity 1.
C20_ReserveExact ==
    [][/\ Did({"reserve"}) =>
             LET x == last'.who
                 additional == last'.index
                 hd == mem[arr[x]]
             IN /\ x \in DOMAIN arr'
                /\ mem'[arr'[x]].len = hd.len
                /\ Elems(mem', arr'[x]) = Elems(mem, arr[x])
                /\ IF hd.cap >= hd.len + additional
                   THEN mem' = mem /\ arr' = arr /\ allocated' = allocated
                   ELSE mem'[arr'[x]].cap = Max(2 * hd.cap, hd.len + additional)
       /\ Did({"push"}) =>
             LET x == last'.who
                 hd == mem[arr[x]]
             IN /\ x \in DOMAIN arr'
                /\ hd.len = hd.cap /\ hd.cap > 0 => mem'[arr'[x]].cap = 2 * hd.cap
                /\ arr[x] = EMPTY => mem'[arr'[x]].cap = 1
                /\ hd.len < hd.cap => mem'[arr'[x]].cap = hd.cap]_vars

\* reserve(3) on a full array of one slot took the capacity to len + 3,
\* beyond twice the old capacity
C20_Witness ==
    /\ last.op = "reserve" /\ Alive
    /\ last.index = 3
    /\ last.capBefore = 1 /\ Len(last.before) = 1
    /\ capacity(St, last.who) = 4
    /\ as_slice(St, last.who) = last.before

\* C21: after every step the element sequence equals the reference list
\* that performed the same positional inserts and removes; an insert(index,
\* item) with index <= len puts item at index, keeps the elements below
\* index and moves those from index on up by one; a remove(index) with
\* index < len returns the element at index, keeps the elements below index
\* and moves those above it down by one.
C21_InsertRemoveMatchesReference ==
    /\ \A x \in DOMAIN arr : as_slice(St, x) = ref[x]
    /\ (last.op = "insert" /\ Alive) =>
          LET b == last.before
              now == as_slice(St, last.who)
              i == last.index
          IN IF i <= Len(b)
             THEN /\ ~last.panic
                  /\ len(St, last.who) = Len(b) + 1
                  /\ Len(now) = Len(b) + 1
                  /\ now[i + 1] = last.item
                  /\ \A j \in 1..Len(b) :
                        b[j] = IF j <= i THEN now[j] ELSE now[j + 1]
             ELSE last.panic
    /\ (last.op = "remove" /\ Alive) =>
          LET b == last.before
              now == as_slice(St, last.who)
              i == last.index
          IN IF i < Len(b)
             THEN /\ ~last.panic
                  /\ last.ret = b[i + 1]
                  /\ last.ret = last.refRet
                  /\ len(St, last.who) = Len(b) - 1
                  /\ Len(now) = Len(b) - 1
                  /\ \A j \in 1..Len(now) :
                        now[j] = IF j <= i THEN b[j] ELSE b[j + 1]
             ELSE last.panic

\* remove(1) of [a, b, c] with b # c returned b and left [a, c]
C21_Witness ==
    /\ last.op = "remove" /\ ~last.panic /\ Alive
    /\ ~last.paired
    /\ Len(last.before) = 3
    /\ last.index = 1
    /\ last.before[2] # last.before[3]
    /\ last.ret = last.before[2]
    /\ as_slice(St, last.who) = <<last.before[1], last.before[3]>>

=============================================================================
